---- MODULE Spec2Model ----
(***************************************************************************)
(* A model of the CoLRev package/endpoint extension system                 *)
(* (colrev/env/package_manager.py) and of the operations that use it       *)
(* (colrev/ops/pdf_get.py, colrev/ops/prescreen.py and the curation        *)
(* dedupe endpoint).                                                       *)
(*                                                                         *)
(* Python values are modelled as follows.                                  *)
(*   - a str is a TLA+ string; str.lower() is the operator Lower;          *)
(*   - a dotted import path is the sequence of its segments;               *)
(*   - a dict is a record [keys, val]: keys is the insertion order and     *)
(*     val the mapping (Python dicts iterate in insertion order);          *)
(*   - a raised exception is the field exc of an operation's result        *)
(*     ("none" when the operation returns normally).                       *)
(***************************************************************************)
EXTENDS Integers, Sequences, FiniteSets, TLC

VARIABLES
    env,        \* what importlib and the working directory hold
    packages,   \* PackageManager.packages: type -> identifier -> metadata
    pc,         \* "new" | "ready" | "done"
    call,       \* the operation called last and its arguments
    result,     \* what that operation returned or raised
    settings,       \* review_manager.settings: the endpoint lists of the stages
    endpoints,      \* the operation's loaded package endpoints (a dict)
    records_file,   \* the records dataset on disk: ID -> record
    records,        \* the records dict the running operation holds in memory
    pdf_files,      \* the PDF files that exist below the pdf directory
    items,          \* the items __get_data handed to p_map
    retrieved,      \* the get_pdf result of each item (NoValue while pending)
    step,           \* position of the running operation
    commits         \* the commit history: <<[msg, records], ...>>

pmvars == <<env, packages, pc, call, result>>

opvars == <<settings, endpoints, records_file, records, pdf_files, items,
            retrieved, step, commits>>

vars == <<env, packages, pc, call, result, settings, endpoints, records_file,
          records, pdf_files, items, retrieved, step, commits>>

(***************************************************************************)
(* Bounds of the model                                                     *)
(***************************************************************************)
MaxSelected == 2

MaxRecords == 2

\* dedupe and prescreen start only while the history has fewer commits
MaxCommits == 2

(***************************************************************************)
(* Generic helpers                                                         *)
(***************************************************************************)
SeqsUpTo(S, n) == UNION { [1..k -> S] : k \in 0..n }

Range(s) == { s[i] : i \in DOMAIN s }

NoValue == [kind |-> "absent"]

\* Python dict
DictEmpty == [keys |-> <<>>, val |-> <<>>]

DictHas(d, k) == \E i \in DOMAIN d.keys : d.keys[i] = k

DictSet(d, k, v) ==
    [keys |-> IF DictHas(d, k) THEN d.keys ELSE Append(d.keys, k),
     val  |-> [x \in Range(d.keys) \cup {k} |-> IF x = k THEN v ELSE d.val[x]]]

DictDel(d, k) ==
    [keys |-> SelectSeq(d.keys, LAMBDA x : x # k),
     val  |-> [x \in Range(d.keys) \ {k} |-> d.val[x]]]

(***************************************************************************)
(* str.lower() on the identifiers of the model                             *)
(***************************************************************************)
Lower(s) ==
    CASE s = "Alpha"         -> "alpha"
      [] s = "ALPHA"         -> "alpha"
      [] s = "Beta"          -> "beta"
      [] s = "Custom_Script" -> "custom_script"
      [] OTHER               -> s

(***************************************************************************)
(* PackageEndpointType and PackageManager.package_type_overview            *)
(***************************************************************************)
PackageEndpointType ==
    {"review_type", "load_conversion", "search_source", "prep", "prep_man",
     "dedupe", "prescreen", "pdf_get", "pdf_get_man", "pdf_prep",
     "pdf_prep_man", "screen", "data"}

Overview(iface, cls, op) ==
    [import_name |-> iface, custom_class |-> cls, operation_name |-> op]

package_type_overview ==
    [t \in PackageEndpointType |->
        CASE t = "review_type" ->
                Overview("ReviewTypePackageInterface", "CustomReviewType", "operation")
          [] t = "load_conversion" ->
                Overview("LoadConversionPackageInterface", "CustomLoad", "load_operation")
          [] t = "search_source" ->
                Overview("SearchSourcePackageInterface", "CustomSearchSource", "source_operation")
          [] t = "prep" ->
                Overview("PrepPackageInterface", "CustomPrep", "prep_operation")
          [] t = "prep_man" ->
                Overview("PrepManPackageInterface", "CustomPrepMan", "prep_man_operation")
          [] t = "dedupe" ->
                Overview("DedupePackageInterface", "CustomDedupe", "dedupe_operation")
          [] t = "prescreen" ->
                Overview("PrescreenPackageInterface", "CustomPrescreen", "prescreen_operation")
          [] t = "pdf_get" ->
                Overview("PDFGetPackageInterface", "CustomPDFGet", "pdf_get_operation")
          [] t = "pdf_get_man" ->
                Overview("PDFGetManPackageInterface", "CustomPDFGetMan", "pdf_get_man_operation")
          [] t = "pdf_prep" ->
                Overview("PDFPrepPackageInterface", "CustomPDFPrep", "pdf_prep_operation")
          [] t = "pdf_prep_man" ->
                Overview("PDFPrepManPackageInterface", "CustomPDFPrepMan", "pdf_prep_man_operation")
          [] t = "screen" ->
                Overview("ScreenPackageInterface", "CustomScreen", "screen_operation")
          [] t = "data" ->
                Overview("DataPackageInterface", "CustomData", "data_operation")]

\* "search_source" == package_type, with package_type a member of the plain
\* Enum PackageEndpointType: a str never equals an Enum member.
StrEqualsEnumByValue(s, member) == s = member

StrEqualsEnum(s, member) == FALSE

(***************************************************************************)
(* The environment: what import_module, getattr, Path.is_file and          *)
(* verifyObject answer.  It does not change while the program runs.        *)
(*   builtin[id]  "ok"          module and class exist, class implements   *)
(*                "ok_noiface"  module and class exist, the class does not *)
(*                              provide the interface of its type          *)
(*                "no_module"   import_module raises ModuleNotFoundError   *)
(*                "no_attr"     the module lacks the class                 *)
(*   installed    top-level modules that are installed                     *)
(*   files        identifiers id with a file id.py in the working dir      *)
(*   custom       what a top-level module / script defines:                *)
(*                "no_custom" no Custom class, "ok" CustomPDFGet           *)
(*                implementing its interface, "ok_noiface" CustomPDFGet    *)
(*                not providing it                                         *)
(***************************************************************************)
RegisteredIds == {"alpha", "beta"}

CustomIds == {"custom_script"}

Envs ==
    { [builtin |-> b, installed |-> m, files |-> f, custom |-> c] :
        b \in { x \in [RegisteredIds -> {"ok", "ok_noiface", "no_module", "no_attr"}] :
                    x["beta"] \in {"ok", "no_module"} },
        m \in SUBSET CustomIds,
        f \in SUBSET {"alpha", "custom_script"},
        c \in {"no_custom", "ok", "ok_noiface"} }

\* importlib.import_module(name): name is the sequence of the path's segments
ImportModule(e, name) ==
    IF Len(name) = 3 /\ name[1] = "built_in"
    THEN IF e.builtin[name[3]] = "no_module"
         THEN [exc |-> "ModuleNotFoundError", ret |-> NoValue]
         ELSE [exc |-> "none",
               ret |-> [kind |-> "module", name |-> name, origin |-> "installed"]]
    ELSE IF Len(name) = 1 /\ name[1] \in e.installed
         THEN [exc |-> "none",
               ret |-> [kind |-> "module", name |-> name, origin |-> "installed"]]
         ELSE [exc |-> "ModuleNotFoundError", ret |-> NoValue]

\* the custom script <id>.py of the working directory, imported after
\* sys.path.append(".")
ImportCustomScript(e, id) ==
    [exc |-> "none",
     ret |-> [kind |-> "module", name |-> <<id>>, origin |-> "project_dir"]]

IsFile(e, id) == id \in e.files

HasAttr(e, module, attr) ==
    IF Len(module.name) = 3
    THEN attr = "Endpoint" /\ e.builtin[module.name[3]] \in {"ok", "ok_noiface"}
    ELSE attr = "CustomPDFGet" /\ e.custom \in {"ok", "ok_noiface"}

GetAttr(e, module, attr) ==
    IF HasAttr(e, module, attr)
    THEN [exc |-> "none",
          ret |-> [kind |-> "class", module |-> module.name,
                   origin |-> module.origin, name |-> attr]]
    ELSE [exc |-> "AttributeError", ret |-> NoValue]

\* whether an instance of class cls provides interface iface (zope.interface)
Provides(e, cls, iface) ==
    IF Len(cls.module) = 3
    THEN /\ e.builtin[cls.module[3]] = "ok"
         /\ iface = package_type_overview[cls.module[2]].import_name
    ELSE /\ e.custom = "ok"
         /\ iface = "PDFGetPackageInterface"

(***************************************************************************)
(* PackageManager.load_package_endpoints_index: the registry read from     *)
(* template/package_endpoints.json.  Keys are lower-case (asserted).       *)
(***************************************************************************)
IndexIds(t) == IF t \in {"review_type", "load_conversion"} THEN {"alpha"} ELSE RegisteredIds

load_package_endpoints_index ==
    [t \in PackageEndpointType |->
        [keys |-> IF "beta" \in IndexIds(t) THEN <<"alpha", "beta">> ELSE <<"alpha">>,
         val  |-> [id \in IndexIds(t) |->
                     [endpoint |-> <<"built_in", t, id, "Endpoint">>]]]]

(***************************************************************************)
(* PackageManager.load_package_endpoint                                    *)
(***************************************************************************)
LoadPackageEndpointNoLower(pkgs, e, package_type, package_identifier) ==
    LET id == package_identifier IN
    IF ~DictHas(pkgs[package_type], id)
    THEN [exc |-> "MissingDependencyError", ret |-> NoValue]
    ELSE LET package_str    == pkgs[package_type].val[id].endpoint
             package_module == SubSeq(package_str, 1, Len(package_str) - 1)
             package_class  == package_str[Len(package_str)]
             imported       == ImportModule(e, package_module)
         IN IF imported.exc # "none" THEN imported
            ELSE GetAttr(e, imported.ret, package_class)

LoadPackageEndpoint(pkgs, e, package_type, package_identifier) ==
    LET id == Lower(package_identifier) IN
    IF ~DictHas(pkgs[package_type], id)
    THEN [exc |-> "MissingDependencyError", ret |-> NoValue]
    ELSE LET package_str    == pkgs[package_type].val[id].endpoint
             package_module == SubSeq(package_str, 1, Len(package_str) - 1)
             package_class  == package_str[Len(package_str)]
             imported       == ImportModule(e, package_module)
         IN IF imported.exc # "none" THEN imported
            ELSE GetAttr(e, imported.ret, package_class)

(***************************************************************************)
(* PackageManager.get_package_details                                      *)
(* settings_class tells whether the loaded class has the attribute         *)
(* settings_class (a dataclass with the field endpoint); the returned      *)
(* schema is given by the names of its properties.                         *)
(***************************************************************************)
GetPackageDetails(pkgs, e, package_type, package_identifier, settings_class) ==
    LET id            == Lower(package_identifier)
        package_class == LoadPackageEndpoint(pkgs, e, package_type, id)
    IN
    IF package_class.exc # "none" THEN package_class
    \* settings_class.json_schema() is evaluated before settings_class is
    \* compared with None
    ELSE IF ~settings_class THEN [exc |-> "AttributeError", ret |-> NoValue]
    ELSE [exc |-> "none",
          ret |-> [properties |->
                      {"endpoint"} \cup
                      (IF package_type = "search_source"
                       THEN {"filename", "load_conversion_package_endpoint"}
                       ELSE {})]]

(***************************************************************************)
(* PackageManager.__flag_installed_packages                                *)
(***************************************************************************)
FlagEntryAlwaysInstalled(pkgs, e, t, id) ==
    [endpoint |-> pkgs[t].val[id].endpoint, installed |-> TRUE]

FlagEntry(pkgs, e, t, id) ==
    [endpoint  |-> pkgs[t].val[id].endpoint,
     \* True when the try block completes, False on AttributeError or
     \* ModuleNotFoundError (a registry key is never missing from the registry)
     installed |-> LoadPackageEndpoint(pkgs, e, t, id).exc = "none"]

FlagInstalledPackages(pkgs, e) ==
    [t \in DOMAIN pkgs |->
        [keys |-> pkgs[t].keys,
         val  |-> [id \in DOMAIN pkgs[t].val |-> FlagEntry(pkgs, e, t, id)]]]

(***************************************************************************)
(* PackageManager.discover_packages: updates self.packages[package_type]   *)
(* in place, entry by entry, and stops at the first exception.             *)
(***************************************************************************)
RECURSIVE DiscoverFrom(_, _, _, _, _, _)
DiscoverFrom(pkgs, e, package_type, installed_only, discovered, i) ==
    IF i > Len(discovered.keys)
    THEN [exc |-> "none", ret |-> discovered, packages |-> discovered]
    ELSE LET id      == discovered.keys[i]
             package == discovered.val[id]
         IN IF installed_only /\ ~package.installed
            THEN DiscoverFrom(pkgs, e, package_type, installed_only, discovered, i + 1)
            ELSE LET loaded == LoadPackageEndpoint(pkgs, e, package_type, id) IN
                 IF loaded.exc # "none"
                 THEN [exc |-> loaded.exc, ret |-> NoValue, packages |-> discovered]
                 ELSE DiscoverFrom(pkgs, e, package_type, installed_only,
                        DictSet(discovered, id,
                            [endpoint    |-> package.endpoint,
                             installed   |-> package.installed,
                             description |-> <<"doc", loaded.ret.module>>]),
                        i + 1)

DiscoverPackages(pkgs, e, package_type, installed_only) ==
    LET r == DiscoverFrom(pkgs, e, package_type, installed_only, pkgs[package_type], 1)
    IN [exc |-> r.exc, ret |-> r.ret,
        packages |-> [pkgs EXCEPT ![package_type] = r.packages]]

(***************************************************************************)
(* PackageManager.__get_packages_dict                                      *)
(* An entry of packages_dict is [settings, endpoint, custom_flag]; a       *)
(* missing "endpoint" key is endpoint = NoValue, a missing "custom_flag"   *)
(* key is custom_flag = FALSE.  sources logs, per selected package, which  *)
(* of the three branches the identifier took.                              *)
(***************************************************************************)
Entry(package_settings, endpoint, custom_flag) ==
    [settings |-> package_settings, endpoint |-> endpoint, custom_flag |-> custom_flag]

RECURSIVE GetPackagesDictFrom(_, _, _, _, _, _, _, _)
GetPackagesDictFrom(pkgs, e, selected_packages, package_type, ignore_not_available, packages_dict, sources, i) ==
    IF i > Len(selected_packages)
    THEN [exc |-> "none", dict |-> packages_dict, sources |-> sources]
    ELSE
    LET selected_package   == selected_packages[i]
        package_identifier == Lower(selected_package.endpoint)
        d0 == DictSet(packages_dict, package_identifier,
                      Entry(selected_package, NoValue, FALSE))
        Continue(d, src) ==
            GetPackagesDictFrom(pkgs, e, selected_packages, package_type,
                ignore_not_available, d,
                Append(sources, [id |-> package_identifier, source |-> src]), i + 1)
        Raise(x, src) ==
            [exc |-> x, dict |-> d0,
             sources |-> Append(sources, [id |-> package_identifier, source |-> src])]
    IN
    \* 1. Load built-in packages
    IF DictHas(pkgs[package_type], package_identifier)
    THEN IF ~pkgs[package_type].val[package_identifier].installed
         THEN Continue(d0, "built_in")
         ELSE LET loaded == LoadPackageEndpoint(pkgs, e, package_type, package_identifier)
              IN IF loaded.exc # "none"
                 THEN Raise(loaded.exc, "built_in")
                 ELSE Continue(DictSet(d0, package_identifier,
                                  Entry(selected_package, loaded.ret, FALSE)), "built_in")
    ELSE IF ignore_not_available
    THEN Raise("MissingDependencyError", "none")
    \* 2. Load module packages
    ELSE IF ~IsFile(e, package_identifier)
    THEN LET imported == ImportModule(e, <<package_identifier>>) IN
         IF imported.exc = "none"
         THEN Continue(DictSet(d0, package_identifier,
                          Entry(selected_package, imported.ret, TRUE)), "module")
         ELSE IF ignore_not_available
              THEN Continue(DictDel(d0, package_identifier), "module")
              ELSE Raise("MissingDependencyError", "module")
    \* 3. Load custom packages in the directory
    ELSE LET imported == ImportCustomScript(e, package_identifier) IN
         Continue(DictSet(d0, package_identifier,
                     Entry(selected_package, imported.ret, TRUE)), "custom")

GetPackagesDict(pkgs, e, selected_packages, package_type, ignore_not_available) ==
    GetPackagesDictFrom(pkgs, e, selected_packages, package_type,
                        ignore_not_available, DictEmpty, <<>>, 1)

(***************************************************************************)
(* PackageManager.__drop_broken_packages                                   *)
(* Popping a key while iterating over packages_dict.items() makes the      *)
(* iterator raise RuntimeError at its next step.                           *)
(***************************************************************************)
RECURSIVE DropBrokenFrom(_, _, _, _, _, _)
DropBrokenFrom(e, packages_dict, keys, package_type, ignore_not_available, i) ==
    IF i > Len(keys)
    THEN [exc |-> "none", dict |-> packages_dict]
    ELSE LET k   == keys[i]
             val == packages_dict.val[k]
         IN IF ~val.custom_flag
            THEN DropBrokenFrom(e, packages_dict, keys, package_type,
                                ignore_not_available, i + 1)
            ELSE LET got == GetAttr(e, val.endpoint,
                                package_type_overview[package_type].custom_class)
                 IN IF got.exc = "none"
                    THEN DropBrokenFrom(e,
                            DictSet(packages_dict, k, Entry(val.settings, got.ret, FALSE)),
                            keys, package_type, ignore_not_available, i + 1)
                    ELSE IF ~ignore_not_available
                         THEN [exc |-> "MissingDependencyError", dict |-> packages_dict]
                         ELSE [exc |-> "RuntimeError", dict |-> DictDel(packages_dict, k)]

DropBrokenPackages(e, packages_dict, package_type, ignore_not_available) ==
    DropBrokenFrom(e, packages_dict, packages_dict.keys, package_type,
                   ignore_not_available, 1)

(***************************************************************************)
(* PackageManager.load_packages                                            *)
(* constructed logs the constructor calls, verified the objects that       *)
(* passed verifyObject.                                                    *)
(***************************************************************************)
Params(package_type, operation, package_settings) ==
    [k \in {package_type_overview[package_type].operation_name, "settings"} |->
        IF k = "settings" THEN [kind |-> "settings", value |-> package_settings]
        ELSE [kind |-> "operation", value |-> operation]]

NewObject(cls, params) == [kind |-> "object", class |-> cls, params |-> params]

VerifyObjectAlwaysPasses(e, iface, obj) == TRUE

VerifyObject(e, iface, obj) == Provides(e, obj.class, iface)

RECURSIVE LoadPackagesFrom(_, _, _, _, _, _, _, _, _)
LoadPackagesFrom(e, packages_dict, keys, package_type, operation, instantiate_objects, constructed, verified, i) ==
    IF i > Len(keys)
    THEN [exc |-> "none", ret |-> packages_dict,
          constructed |-> constructed, verified |-> verified]
    ELSE
    LET package_identifier == keys[i]
        package_class      == packages_dict.val[package_identifier]
        package_details    == package_type_overview[package_type]
        params == Params(package_type, operation, package_class.settings)
        Raise(x, c) == [exc |-> x, ret |-> NoValue, constructed |-> c,
                        verified |-> verified]
    IN
    IF StrEqualsEnum("search_source", package_type)
    THEN Raise("KeyError", constructed)      \* del params["check_operation"]
    ELSE IF package_class.endpoint = NoValue
    THEN Raise("MissingDependencyError", constructed)
    ELSE IF instantiate_objects
    THEN LET obj == NewObject(package_class.endpoint, params)
             c1  == Append(constructed, [class |-> package_class.endpoint,
                                         params |-> params])
         IN IF ~VerifyObject(e, package_details.import_name, obj)
            THEN Raise("Invalid", c1)
            ELSE LoadPackagesFrom(e, DictSet(packages_dict, package_identifier, obj),
                    keys, package_type, operation, instantiate_objects,
                    c1, verified \cup {obj}, i + 1)
    ELSE LoadPackagesFrom(e,
            DictSet(packages_dict, package_identifier, package_class.endpoint),
            keys, package_type, operation, instantiate_objects,
            constructed, verified, i + 1)

LoadPackages(pkgs, e, package_type, selected_packages, operation, ignore_not_available, instantiate_objects) ==
    LET got == GetPackagesDict(pkgs, e, selected_packages, package_type,
                               ignore_not_available)
        Fail(x) == [exc |-> x, ret |-> NoValue, constructed |-> <<>>,
                    verified |-> {}, sources |-> got.sources]
    IN
    IF got.exc # "none" THEN Fail(got.exc)
    ELSE LET dropped == DropBrokenPackages(e, got.dict, package_type,
                                           ignore_not_available)
         IN IF dropped.exc # "none" THEN Fail(dropped.exc)
            ELSE LET r == LoadPackagesFrom(e, dropped.dict, dropped.dict.keys,
                                package_type, operation, instantiate_objects,
                                <<>>, {}, 1)
                 IN [exc |-> r.exc, ret |-> r.ret, constructed |-> r.constructed,
                     verified |-> r.verified, sources |-> got.sources]

(***************************************************************************)
(* The package manager as a state machine: PackageManager() is             *)
(* constructed, then one of its public operations is called.               *)
(***************************************************************************)
Identifiers == {"alpha", "Alpha", "beta", "Beta", "custom_script"}

SelectableIds == {"alpha", "Alpha", "custom_script"}

\* The settings lists handed to load_packages: every entry names an endpoint
\* and carries its own option value (no two entries of a list are equal).
SelectedPackages ==
    { [i \in DOMAIN ids |-> [endpoint |-> ids[i], option |-> i]] :
        ids \in SeqsUpTo(SelectableIds, MaxSelected) }

NoCall == [op |-> "none"]

\* the operations' variables while no operation object exists
NoOperation ==
    /\ settings = <<>>
    /\ endpoints = NoValue
    /\ records_file = <<>>
    /\ records = <<>>
    /\ pdf_files = {}
    /\ items = <<>>
    /\ retrieved = <<>>
    /\ step = "none"
    /\ commits = <<>>

InitPM ==
    /\ env \in Envs
    /\ packages = load_package_endpoints_index
    /\ pc = "new"
    /\ call = NoCall
    /\ result = NoValue
    /\ NoOperation

\* PackageManager.__init__
Construct ==
    /\ pc = "new"
    /\ packages' = FlagInstalledPackages(load_package_endpoints_index, env)
    /\ pc' = "ready"
    /\ UNCHANGED <<env, call, result>>
    /\ UNCHANGED opvars

LoadPackageEndpointCall ==
    \E t \in PackageEndpointType, id \in Identifiers :
        /\ pc = "ready"
        /\ call' = [op |-> "load_package_endpoint", package_type |-> t,
                    package_identifier |-> id]
        /\ result' = LoadPackageEndpoint(packages, env, t, id)
        /\ pc' = "done"
        /\ UNCHANGED <<env, packages>>
        /\ UNCHANGED opvars

DiscoverPackagesCall ==
    \E t \in PackageEndpointType, installed_only \in BOOLEAN :
        LET r == DiscoverPackages(packages, env, t, installed_only) IN
        /\ pc = "ready"
        /\ call' = [op |-> "discover_packages", package_type |-> t,
                    installed_only |-> installed_only]
        /\ result' = [exc |-> r.exc, ret |-> r.ret]
        /\ packages' = r.packages
        /\ pc' = "done"
        /\ UNCHANGED env
        /\ UNCHANGED opvars

GetPackageDetailsCall ==
    \E t \in PackageEndpointType, id \in Identifiers, settings_class \in BOOLEAN :
        /\ pc = "ready"
        /\ call' = [op |-> "get_package_details", package_type |-> t,
                    package_identifier |-> id, settings_class |-> settings_class]
        /\ result' = GetPackageDetails(packages, env, t, id, settings_class)
        /\ pc' = "done"
        /\ UNCHANGED <<env, packages>>
        /\ UNCHANGED opvars

LoadPackagesCall ==
    \E t \in PackageEndpointType, sel \in SelectedPackages,
       ignore_not_available \in BOOLEAN, instantiate_objects \in BOOLEAN :
        /\ pc = "ready"
        /\ call' = [op |-> "load_packages", package_type |-> t,
                    selected_packages |-> sel, operation |-> "operation",
                    ignore_not_available |-> ignore_not_available,
                    instantiate_objects |-> instantiate_objects]
        /\ result' = LoadPackages(packages, env, t, sel, "operation",
                                  ignore_not_available, instantiate_objects)
        /\ pc' = "done"
        /\ UNCHANGED <<env, packages>>
        /\ UNCHANGED opvars

NextPM ==
    \/ Construct
    \/ LoadPackageEndpointCall
    \/ DiscoverPackagesCall
    \/ GetPackageDetailsCall
    \/ LoadPackagesCall

Spec == InitPM /\ [][NextPM]_vars

(***************************************************************************)
(* Properties of the package manager (checked under Spec)                  *)
(***************************************************************************)
IsLoadPackages == pc = "done" /\ call.op = "load_packages"

Returned == result.exc = "none"

RegistryAfterConstruction == FlagInstalledPackages(load_package_endpoints_index, env)

\* C1 as stated: whatever load_packages returns was verified against the
\* interface of the package type, for every value of ignore_not_available
\* and instantiate_objects.
C1_Original ==
    (IsLoadPackages /\ Returned) =>
        \A k \in Range(result.ret.keys) : result.ret.val[k] \in result.verified

\* C1, amended: with instantiate_objects = True every endpoint that
\* load_packages returns is an object that verifyObject accepted for the
\* interface package_type_overview declares for the package type, i.e. it
\* provides that interface.
C1_ReturnedEndpointsVerified ==
    (IsLoadPackages /\ Returned /\ call.instantiate_objects) =>
        \A k \in Range(result.ret.keys) :
            LET obj == result.ret.val[k] IN
            /\ obj.kind = "object"
            /\ obj \in result.verified
            /\ Provides(env, obj.class,
                        package_type_overview[call.package_type].import_name)

C1_Witness ==
    /\ IsLoadPackages /\ Returned /\ call.instantiate_objects
    /\ Len(result.ret.keys) = 2
    /\ env.builtin["beta"] = "ok" /\ env.custom = "ok"

\* C2 as stated: every selected package that load_packages resolves takes
\* exactly one of the three sources, by the precedence registry, installed
\* module (no file <identifier>.py), custom script; and module and custom
\* packages end up as the Custom class of the package type.
C2_Precedence ==
    IsLoadPackages =>
        /\ \A i \in DOMAIN result.sources :
              LET id == result.sources[i].id IN
              result.sources[i].source =
                 IF DictHas(packages[call.package_type], id) THEN "built_in"
                 ELSE IF ~IsFile(env, id) THEN "module"
                 ELSE "custom"
        /\ (Returned /\ ~call.instantiate_objects) =>
              \A k \in Range(result.ret.keys) :
                 (~DictHas(packages[call.package_type], k)) =>
                    result.ret.val[k].name =
                        package_type_overview[call.package_type].custom_class

\* C3: once PackageManager() is constructed every registry entry carries an
\* installed flag, True exactly when the entry's module can be imported and
\* holds the entry's class, and no operation changes the flag afterwards.
C3_InstalledFlags ==
    pc # "new" =>
        \A t \in PackageEndpointType : \A id \in Range(packages[t].keys) :
            LET entry == packages[t].val[id] IN
            /\ "installed" \in DOMAIN entry
            /\ entry.installed = (env.builtin[id] \in {"ok", "ok_noiface"})
            /\ entry.installed =
                 (LoadPackageEndpoint(load_package_endpoints_index, env, t, id).exc = "none")

C3_Witness ==
    /\ pc = "done" /\ call.op = "discover_packages"
    /\ call.package_type = "pdf_get"
    /\ packages # RegistryAfterConstruction
    /\ packages[call.package_type].val["alpha"].installed
    /\ ~packages[call.package_type].val["beta"].installed

\* C4: load_package_endpoint looks the lower-cased identifier up in the
\* registry of the package type and returns the class the registered path
\* names; for an identifier not registered for that type it raises
\* MissingDependencyError, returns nothing and leaves the registry unchanged.
C4_LoadPackageEndpoint ==
    (pc = "done" /\ call.op = "load_package_endpoint") =>
        LET t   == call.package_type
            key == Lower(call.package_identifier)
        IN
        /\ packages = RegistryAfterConstruction
        /\ IF key \in IndexIds(t)
           THEN /\ result.exc \in {"none", "ModuleNotFoundError", "AttributeError"}
                /\ packages[t].val[key].installed <=> result.exc = "none"
                /\ result.exc = "none" =>
                     /\ result.ret.kind = "class"
                     /\ Append(result.ret.module, result.ret.name)
                            = packages[t].val[key].endpoint
           ELSE result.exc = "MissingDependencyError" /\ result.ret = NoValue
        /\ (call.package_identifier \in {"Alpha", "alpha"})
              => result.exc # "MissingDependencyError"
        /\ (call.package_identifier \in {"Beta", "beta"} /\ t = "review_type")
              => result.exc = "MissingDependencyError"

C4_Witness ==
    /\ pc = "done" /\ call.op = "load_package_endpoint"
    /\ call.package_identifier = "Beta"
    /\ result.exc = "none"
    /\ result.ret.name = "Endpoint"

\* C6: with instantiate_objects = True load_packages constructs each endpoint
\* with exactly two keyword arguments, the operation under the operation_name
\* of the package type and settings equal to the package's entry in
\* selected_packages, for all thirteen package types (search_source too).
C6_ConstructorArguments ==
    (IsLoadPackages /\ call.instantiate_objects) =>
        LET opname == package_type_overview[call.package_type].operation_name IN
        /\ result.exc # "KeyError"
        /\ \A i \in DOMAIN result.constructed :
              LET params == result.constructed[i].params IN
              /\ DOMAIN params = {opname, "settings"}
              /\ Cardinality(DOMAIN params) = 2
              /\ params[opname].value = call.operation
              /\ params["settings"].value \in Range(call.selected_packages)
        /\ Returned =>
              /\ Len(result.constructed) = Len(result.ret.keys)
              /\ \A i \in DOMAIN result.constructed :
                    LET k == result.ret.keys[i] IN
                    /\ result.ret.val[k].class = result.constructed[i].class
                    /\ result.ret.val[k].params = result.constructed[i].params
                    /\ Lower(result.constructed[i].params["settings"].value.endpoint) = k

C6_Witness ==
    /\ IsLoadPackages /\ call.instantiate_objects /\ Returned
    /\ call.package_type = "search_source"
    /\ Len(result.constructed) = 1
    /\ DOMAIN result.constructed[1].params = {"source_operation", "settings"}

(***************************************************************************)
(* Records                                                                 *)
(* A record is [ID, colrev_status, file]; file = NoValue when the record   *)
(* has no "file" field.  A PDF path is [dir, stem].                        *)
(***************************************************************************)
RecordState ==
    {"md_retrieved", "md_imported", "md_needs_manual_preparation", "md_prepared",
     "md_processed", "rev_prescreen_excluded", "rev_prescreen_included",
     "pdf_needs_manual_retrieval", "pdf_imported", "pdf_prepared",
     "rev_excluded", "rev_included", "rev_synthesized"}

RecordIds == 1..MaxRecords

\* toc_key stands for Record.get_toc_key(): the journal issue of the record
Record(id, status, file, toc_key) ==
    [ID |-> id, colrev_status |-> status, file |-> file, toc_key |-> toc_key]

\* review_manager.PDF_DIR_RELATIVE / f"{ID}.pdf"
PdfPath(id) == [dir |-> "data/pdfs", stem |-> id]

\* a PDF in the pdf directory whose name is no record ID
ForeignPdf == [dir |-> "data/pdfs", stem |-> 0]

HasFile(record) == record.file # NoValue

\* the records in ID order, as dataset.read_next_record yields them
RECURSIVE RecordsWhere(_, _, _)
RecordsWhere(recs, status, id) ==
    IF id > MaxRecords THEN <<>>
    ELSE IF id \in DOMAIN recs /\ recs[id].colrev_status = status
         THEN <<recs[id]>> \o RecordsWhere(recs, status, id + 1)
         ELSE RecordsWhere(recs, status, id + 1)

(***************************************************************************)
(* PDFGet.link_pdf and PDFGet.get_pdf                                      *)
(* outcomes[i] tells whether the i-th configured endpoint, if it is        *)
(* called, retrieves a PDF and sets the record's file field.               *)
(***************************************************************************)
LinkPdf(record, files) ==
    IF PdfPath(record.ID) \in files /\ record.file # PdfPath(record.ID)
    THEN [record EXCEPT !.file = PdfPath(record.ID)]
    ELSE record

\* endpoint.get_pdf(self, record) of a pdf_get package
EndpointGetPdf(record, found) ==
    IF found THEN [record EXCEPT !.file = PdfPath(record.ID)] ELSE record

RECURSIVE GetPdfLoopWithoutBreak(_, _, _, _, _, _)
GetPdfLoopWithoutBreak(record, package_endpoints, loaded, outcomes, called, i) ==
    IF i > Len(package_endpoints)
    THEN [exc |-> "none", record |-> record, called |-> called]
    ELSE LET name == package_endpoints[i].endpoint IN
         IF ~DictHas(loaded, name)
         THEN [exc |-> "KeyError", record |-> record, called |-> called]
         ELSE LET got == EndpointGetPdf(record, outcomes[i]) IN
              GetPdfLoopWithoutBreak(
                 [got EXCEPT !.colrev_status =
                     IF HasFile(got) THEN "pdf_imported"
                     ELSE "pdf_needs_manual_retrieval"],
                 package_endpoints, loaded, outcomes, Append(called, name), i + 1)

RECURSIVE GetPdfLoop(_, _, _, _, _, _)
GetPdfLoop(record, package_endpoints, loaded, outcomes, called, i) ==
    IF i > Len(package_endpoints)
    THEN [exc |-> "none", record |-> record, called |-> called]
    ELSE LET name == package_endpoints[i].endpoint IN
         IF ~DictHas(loaded, name)
         THEN [exc |-> "KeyError", record |-> record, called |-> called]
         ELSE LET got == EndpointGetPdf(record, outcomes[i])
                  c1  == Append(called, name)
              IN IF HasFile(got)
                 THEN [exc |-> "none",
                       record |-> [got EXCEPT !.colrev_status = "pdf_imported"],
                       called |-> c1]
                 ELSE GetPdfLoop(
                        [got EXCEPT !.colrev_status = "pdf_needs_manual_retrieval"],
                        package_endpoints, loaded, outcomes, c1, i + 1)

GetPdf(item, package_endpoints, loaded, files, outcomes) ==
    LET record_dict == item.record IN
    IF "rev_prescreen_included" # record_dict.colrev_status
    THEN [exc |-> "none", record |-> record_dict, called |-> <<>>]
    ELSE GetPdfLoop(LinkPdf(record_dict, files), package_endpoints, loaded,
                    outcomes, <<>>, 1)

\* a get_pdf that would write into the PDF paths of the other records
FilesAfterGetPdfOfAllRecords(files, res) ==
    IF HasFile(res.record)
    THEN files \cup { [dir |-> "data/pdfs", stem |-> id] : id \in 1..MaxRecords }
    ELSE files

\* the files on disk after get_pdf: a retrieved PDF is written to the pdf dir
FilesAfterGetPdf(files, res) ==
    IF HasFile(res.record) THEN files \cup {res.record.file} ELSE files

(***************************************************************************)
(* PDFGet.__set_status_if_file_linked (the loop; the save is in the        *)
(* action) and PDFGet.check_existing_unlinked_pdfs                         *)
(***************************************************************************)
SetStatusIfFileLinked(recs, files) ==
    [id \in DOMAIN recs |->
        IF /\ recs[id].colrev_status \in
                {"rev_prescreen_included", "pdf_needs_manual_retrieval"}
           /\ HasFile(recs[id])
           /\ recs[id].file \in files
        THEN [recs[id] EXCEPT !.colrev_status = "pdf_imported"]
        ELSE recs[id]]

UnlinkedPdfs(recs, files) ==
    files \ { recs[id].file : id \in { x \in DOMAIN recs : HasFile(recs[x]) } }

\* max_sim_record is the record most similar to the PDF's metadata
\* (0: GROBID reports an error, or no record is more similar than 0.5)
LinkUnlinked(recs, file, max_sim_record) ==
    IF max_sim_record \notin DOMAIN recs
    THEN recs
    ELSE IF recs[max_sim_record].colrev_status = "pdf_prepared"
    THEN recs
    ELSE [recs EXCEPT ![max_sim_record] =
            [@ EXCEPT !.file = file, !.colrev_status = "pdf_imported"]]

CheckExistingUnlinkedPdfs(recs, files, max_sim_record) ==
    LET unlinked == { f \in UnlinkedPdfs(recs, files) : f.stem \notin DOMAIN recs }
    IN IF ForeignPdf \in unlinked
       THEN LinkUnlinked(recs, ForeignPdf, max_sim_record)
       ELSE recs

(***************************************************************************)
(* The records dataset (colrev.dataset) and the commit                     *)
(***************************************************************************)
\* dataset.save_record_list_by_id
SaveRecordListById(file_records, record_list) ==
    [id \in DOMAIN file_records |->
        IF \E i \in DOMAIN record_list : record_list[i].ID = id
        THEN LET i == CHOOSE i \in DOMAIN record_list : record_list[i].ID = id
             IN record_list[i]
        ELSE file_records[id]]

\* review_manager.create_commit
CreateCommit(history, msg, file_records) ==
    Append(history, [msg |-> msg, records |-> file_records])

(***************************************************************************)
(* The pdf-get operation as a state machine: PDFGet(review_manager) is     *)
(* constructed, then either main() runs step by step (the get_pdf tasks of *)
(* p_map in any order) or get_pdf is called on one record.                 *)
(***************************************************************************)
Sel(ids) == [i \in DOMAIN ids |-> [endpoint |-> ids[i], option |-> i]]

PDFGetEndpointLists ==
    {Sel(<<>>), Sel(<<"alpha">>), Sel(<<"Alpha">>), Sel(<<"alpha", "custom_script">>)}

PDFGetEnvs ==
    { e \in Envs : /\ e.builtin = [id \in RegisteredIds |-> "ok"]
                   /\ e.installed = {}
                   /\ e.files \in {{}, {"custom_script"}}
                   /\ e.custom = "ok" }

\* what a record of the dataset looks like when pdf-get starts
RecordProfiles ==
    {[status |-> "rev_prescreen_included",     linked |-> FALSE, pdf |-> FALSE],
     [status |-> "rev_prescreen_included",     linked |-> FALSE, pdf |-> TRUE],
     [status |-> "rev_prescreen_included",     linked |-> TRUE,  pdf |-> TRUE],
     [status |-> "pdf_needs_manual_retrieval", linked |-> TRUE,  pdf |-> TRUE],
     [status |-> "md_imported",                linked |-> FALSE, pdf |-> FALSE],
     [status |-> "pdf_prepared",               linked |-> TRUE,  pdf |-> TRUE],
     [status |-> "rev_included",               linked |-> TRUE,  pdf |-> TRUE]}

InitPDFGet ==
    /\ env \in PDFGetEnvs
    /\ packages = FlagInstalledPackages(load_package_endpoints_index, env)
    /\ pc = "ready"
    /\ call = NoCall
    /\ result = NoValue
    /\ \E sel \in PDFGetEndpointLists :
          settings = [pdf_get_package_endpoints |-> sel,
                      prescreen_package_endpoints |-> Sel(<<"alpha">>),
                      prescreen_explanation |-> ""]
    /\ endpoints = NoValue
    /\ \E prof \in [RecordIds -> RecordProfiles], foreign \in BOOLEAN :
          /\ records_file = [id \in RecordIds |->
                Record(id, prof[id].status,
                       IF prof[id].linked THEN PdfPath(id) ELSE NoValue, 1)]
          /\ pdf_files = { PdfPath(id) : id \in { x \in RecordIds : prof[x].pdf } }
                            \cup (IF foreign THEN {ForeignPdf} ELSE {})
    /\ records = <<>>
    /\ items = <<>>
    /\ retrieved = <<>>
    /\ step = "none"
    /\ commits = <<>>

\* PDFGet.__init__
PDFGetInit ==
    LET r == LoadPackages(packages, env, "pdf_get",
                          settings.pdf_get_package_endpoints, "PDFGet", FALSE, TRUE)
    IN
    /\ step = "none"
    /\ IF r.exc = "none"
       THEN endpoints' = r.ret /\ step' = "constructed"
       ELSE endpoints' = NoValue /\ step' = "raised"
    /\ UNCHANGED <<pmvars, settings, records_file, records, pdf_files, items,
                   retrieved, commits>>

\* a call of get_pdf on one record of the dataset
GetPdfCall ==
    \E id \in DOMAIN records_file,
       outcomes \in [DOMAIN settings.pdf_get_package_endpoints -> BOOLEAN] :
        LET item == [record |-> records_file[id]]
            res  == GetPdf(item, settings.pdf_get_package_endpoints, endpoints,
                           pdf_files, outcomes)
        IN
        /\ step = "constructed"
        /\ call' = [op |-> "get_pdf", item |-> item, outcomes |-> outcomes,
                    files |-> pdf_files]
        /\ result' = res
        /\ pdf_files' = IF res.exc = "none" THEN FilesAfterGetPdf(pdf_files, res)
                        ELSE pdf_files
        /\ step' = "called"
        /\ UNCHANGED <<env, packages, pc, settings, endpoints, records_file,
                       records, items, retrieved, commits>>

\* main: records = self.review_manager.dataset.load_records_dict()
MainLoadRecords ==
    /\ step = "constructed"
    /\ records' = records_file
    /\ step' = "loaded"
    /\ UNCHANGED <<pmvars, settings, endpoints, records_file, pdf_files, items,
                   retrieved, commits>>

\* main: records = self.__set_status_if_file_linked(records=records),
\* which saves the records (save_records_dict, add_record_changes)
MainSetStatusIfFileLinked ==
    /\ step = "loaded"
    /\ records' = SetStatusIfFileLinked(records, pdf_files)
    /\ records_file' = records'
    /\ step' = "status_set"
    /\ UNCHANGED <<pmvars, settings, endpoints, pdf_files, items, retrieved, commits>>

\* main: records = self.check_existing_unlinked_pdfs(records=records)
MainCheckExistingUnlinkedPdfs ==
    \E max_sim_record \in {0} \cup RecordIds :
        /\ step = "status_set"
        /\ records' = CheckExistingUnlinkedPdfs(records, pdf_files, max_sim_record)
        /\ step' = "unlinked_checked"
        /\ UNCHANGED <<pmvars, settings, endpoints, records_file, pdf_files, items,
                       retrieved, commits>>

\* main: pdf_get_data = self.__get_data(), read from the dataset
MainGetData ==
    /\ step = "unlinked_checked"
    /\ items' = LET rs == RecordsWhere(records_file, "rev_prescreen_included", 1)
                IN [i \in DOMAIN rs |-> [record |-> rs[i]]]
    /\ retrieved' = [i \in DOMAIN items' |-> NoValue]
    /\ step' = IF Len(items') > 0 THEN "p_map" ELSE "no_tasks"
    /\ UNCHANGED <<pmvars, settings, endpoints, records_file, records, pdf_files,
                   commits>>

\* one get_pdf task of p_map(self.get_pdf, pdf_get_data["items"])
MainGetPdfTask ==
    \E i \in DOMAIN items,
       outcomes \in [DOMAIN settings.pdf_get_package_endpoints -> BOOLEAN] :
        LET res == GetPdf(items[i], settings.pdf_get_package_endpoints, endpoints,
                          pdf_files, outcomes)
        IN
        /\ step = "p_map"
        /\ retrieved[i] = NoValue
        /\ retrieved' = [retrieved EXCEPT ![i] = res]
        /\ pdf_files' = IF res.exc = "none" THEN FilesAfterGetPdf(pdf_files, res)
                        ELSE pdf_files
        /\ UNCHANGED <<pmvars, settings, endpoints, records_file, records, items,
                       step, commits>>

AllTasksDone == \A i \in DOMAIN retrieved : retrieved[i] # NoValue

\* main: p_map returns (or re-raises a task's exception), then
\* dataset.save_record_list_by_id(record_list=retrieved_record_list)
MainSaveRecordList ==
    /\ step = "p_map"
    /\ AllTasksDone
    /\ IF \E i \in DOMAIN retrieved : retrieved[i].exc # "none"
       THEN step' = "raised" /\ UNCHANGED records_file
       ELSE /\ records_file' = SaveRecordListById(records_file,
                                    [i \in DOMAIN retrieved |-> retrieved[i].record])
            /\ step' = "saved"
    /\ UNCHANGED <<pmvars, settings, endpoints, records, pdf_files, items,
                   retrieved, commits>>

\* main: self.review_manager.create_commit(msg="Get PDFs", ...)
MainCreateCommit ==
    /\ step \in {"saved", "no_tasks"}
    /\ commits' = CreateCommit(commits, "Get PDFs", records_file)
    /\ step' = "committed"
    /\ UNCHANGED <<pmvars, settings, endpoints, records_file, records, pdf_files,
                   items, retrieved>>

NextPDFGet ==
    \/ PDFGetInit
    \/ GetPdfCall
    \/ MainLoadRecords
    \/ MainSetStatusIfFileLinked
    \/ MainCheckExistingUnlinkedPdfs
    \/ MainGetData
    \/ MainGetPdfTask
    \/ MainSaveRecordList
    \/ MainCreateCommit

SpecPDFGet == InitPDFGet /\ [][NextPDFGet]_vars

(***************************************************************************)
(* CurationMissingDedupe: __process_missing_duplicates and run_dedupe.     *)
(* answers[id] is what the user types for record id: "s", "q", "a", "p",   *)
(* or a number ("digit") that selects the record ID2 from the listed       *)
(* records of the same table-of-content item.                              *)
(***************************************************************************)
DedupeAnswers ==
    { [ret |-> x, ID2 |-> 0] : x \in {"s", "q", "a", "p"} }
        \cup { [ret |-> "digit", ID2 |-> r] : r \in RecordIds }

DedupeInput(recs) == RecordsWhere(recs, "md_prepared", 1)

SameTocRecs(recs, id) ==
    { r \in DOMAIN recs :
        /\ recs[r].toc_key = recs[id].toc_key
        /\ r # id
        /\ recs[r].colrev_status \notin
              {"md_prepared", "md_needs_manual_preparation", "md_imported"} }

NoResults ==
    [decision_list |-> <<>>, add_records_to_md_processed_list |-> <<>>,
     records_to_prepare |-> <<>>]

RECURSIVE ProcessMissingDuplicatesFrom(_, _, _, _)
ProcessMissingDuplicatesFrom(recs, answers, id, results) ==
    IF id > MaxRecords THEN results
    ELSE IF id \notin DOMAIN recs \/ recs[id].colrev_status # "md_prepared"
    THEN ProcessMissingDuplicatesFrom(recs, answers, id + 1, results)
    ELSE IF SameTocRecs(recs, id) = {}
    THEN ProcessMissingDuplicatesFrom(recs, answers, id + 1, results)
    ELSE LET ret == answers[id].ret IN
         IF ret = "s"
         THEN ProcessMissingDuplicatesFrom(recs, answers, id + 1, results)
         ELSE IF ret = "q" THEN results
         ELSE IF ret = "a"
         THEN ProcessMissingDuplicatesFrom(recs, answers, id + 1,
                [results EXCEPT !.add_records_to_md_processed_list = Append(@, id)])
         ELSE IF ret = "p"
         THEN ProcessMissingDuplicatesFrom(recs, answers, id + 1,
                [results EXCEPT !.records_to_prepare = Append(@, id)])
         ELSE ProcessMissingDuplicatesFrom(recs, answers, id + 1,
                [results EXCEPT !.decision_list =
                    Append(@, [ID1 |-> id, ID2 |-> answers[id].ID2,
                                decision |-> "duplicate"])])

ProcessMissingDuplicates(recs, answers) ==
    ProcessMissingDuplicatesFrom(recs, answers, 1, NoResults)

\* the records for which the user is asked
DedupeAsked(recs) ==
    { id \in DOMAIN recs :
        recs[id].colrev_status = "md_prepared" /\ SameTocRecs(recs, id) # {} }

\* a number typed by the user is accepted only if it names a listed record
ValidSelection(recs, answers) ==
    \A id \in DOMAIN answers :
        answers[id].ret = "digit" => answers[id].ID2 \in SameTocRecs(recs, id)

\* dedupe_operation.apply_merges: the record ID1 is merged into ID2
ApplyMerges(recs, decision_list) ==
    LET merged == { decision_list[i].ID1 : i \in DOMAIN decision_list }
    IN [id \in DOMAIN recs \ merged |-> recs[id]]

\* record.set_status(target_state=...) for the records of id_list
SetStatus(recs, id_list, from, target_state) ==
    [id \in DOMAIN recs |->
        IF id \in Range(id_list) /\ recs[id].colrev_status \in from
        THEN [recs[id] EXCEPT !.colrev_status = target_state]
        ELSE recs[id]]

RunDedupe(recs, history, answers) ==
    LET ret == ProcessMissingDuplicates(recs, answers)
        r1  == IF Len(ret.decision_list) > 0
               THEN ApplyMerges(recs, ret.decision_list) ELSE recs
        r2  == IF Len(ret.records_to_prepare) > 0
               THEN SetStatus(r1, ret.records_to_prepare, RecordState,
                              "md_needs_manual_preparation")
               ELSE r1
        h2  == IF Len(ret.decision_list) > 0 \/ Len(ret.records_to_prepare) > 0
               THEN CreateCommit(history, "Merge duplicate records", r2)
               ELSE history
        r3  == IF Len(ret.add_records_to_md_processed_list) > 0
               THEN SetStatus(r2, ret.add_records_to_md_processed_list,
                              {"md_prepared", "md_needs_manual_preparation",
                               "md_imported"},
                              "md_processed")
               ELSE r2
        h3  == IF Len(ret.add_records_to_md_processed_list) > 0
               THEN CreateCommit(h2, "Add non-duplicate records", r3)
               ELSE h2
    IN [records |-> r3, commits |-> h3]

(***************************************************************************)
(* Prescreen.get_data, Prescreen.main and the CLI prescreen endpoint       *)
(* (CoLRevCLIPrescreen.run_prescreen, __fun_cli_prescreen).                *)
(* answers[id] is what the user types for record id: "y", "n", "s" or "q". *)
(***************************************************************************)
PrescreenGetDataPrepared(recs) == RecordsWhere(recs, "md_prepared", 1)

PrescreenGetData(recs) == RecordsWhere(recs, "md_processed", 1)

\* the records for which the user may be asked
PrescreenAsked(recs) ==
    { PrescreenGetData(recs)[k].ID : k \in DOMAIN PrescreenGetData(recs) }

\* the prescreen decision on one record
PrescreenSetData(recs, id, prescreen_inclusion) ==
    [recs EXCEPT ![id].colrev_status =
        IF prescreen_inclusion THEN "rev_prescreen_included"
        ELSE "rev_prescreen_excluded"]

RECURSIVE FunCliPrescreen(_, _, _, _, _, _)
FunCliPrescreen(recs, data_items, split, answers, k, i) ==
    IF k > Len(data_items) THEN [records |-> recs, i |-> i]
    ELSE LET id == data_items[k].ID IN
         IF Len(split) > 0 /\ id \notin Range(split)
         THEN FunCliPrescreen(recs, data_items, split, answers, k + 1, i)
         ELSE IF answers[id] = "q"
         THEN [records |-> recs, i |-> i + 1]
         ELSE \* "s" leaves inclusion_decision_str at "NA", which is not "yes"
              FunCliPrescreen(PrescreenSetData(recs, id, answers[id] = "y"),
                              data_items, split, answers, k + 1, i + 1)

\* commit_answer: the user types "y" at "Create commit (y/n)?"
RunPrescreen(recs, history, split, answers, commit_answer) ==
    LET data_items == PrescreenGetData(recs)
        stat_len   == IF Len(split) > 0 THEN Len(split) ELSE Len(data_items)
        done       == FunCliPrescreen(recs, data_items, split, answers, 1, 0)
        completed  == done.i = stat_len
    IN [records |-> done.records,
        commits |-> IF completed \/ commit_answer
                    THEN CreateCommit(history, "Pre-screening (manual)", done.records)
                    ELSE history]

\* split_str: "NA", or the pieces split_str.split(",") yields (record IDs and
\* 0 for the empty piece "")
SplitStrs ==
    {[na |-> TRUE, pieces |-> <<>>], [na |-> FALSE, pieces |-> <<1>>],
     [na |-> FALSE, pieces |-> <<1, 0>>]}

\* list.remove(x): drops the first occurrence
RECURSIVE ListRemove(_, _)
ListRemove(list, x) ==
    IF list = <<>> THEN <<>>
    ELSE IF Head(list) = x THEN Tail(list)
    ELSE <<Head(list)>> \o ListRemove(Tail(list), x)

RECURSIVE PrescreenMainLoop(_, _, _, _, _, _, _, _)
PrescreenMainLoop(package_endpoints, loaded, recs, history, split, answers, commit_answer, i) ==
    IF i > Len(package_endpoints)
    THEN [exc |-> "none", records |-> recs, commits |-> history]
    ELSE IF ~DictHas(loaded, package_endpoints[i].endpoint)
    THEN [exc |-> "KeyError", records |-> recs, commits |-> history]
    ELSE LET r == RunPrescreen(recs, history, split, answers, commit_answer)
         IN PrescreenMainLoop(package_endpoints, loaded, r.records, r.commits,
                              split, answers, commit_answer, i + 1)

PrescreenMain(package_endpoints, loaded, recs, history, split_str, answers, commit_answer) ==
    IF ~split_str.na /\ 0 \notin Range(split_str.pieces)
    THEN [exc |-> "ValueError", records |-> recs, commits |-> history]
    ELSE PrescreenMainLoop(package_endpoints, loaded, recs, history,
                           IF split_str.na THEN <<>>
                           ELSE ListRemove(split_str.pieces, 0),
                           answers, commit_answer, 1)

(***************************************************************************)
(* The review pipeline: the dedupe and prescreen operations run as whole   *)
(* commands on the records dataset, any number of times and in any order;  *)
(* then pdf-get runs.  call holds the last dedupe or prescreen run with    *)
(* the records it took as input and what became of them.                   *)
(***************************************************************************)
PipelineStatuses == {"md_prepared", "md_processed"}

TocKeys == {1, 2}

PipelineEndpointLists == {Sel(<<"alpha">>), Sel(<<"Alpha">>)}

\* the input records as they are in the dataset after the operation
\* (NoValue for a record that was merged into another one)
Outputs(inputs, recs) ==
    [i \in DOMAIN inputs |->
        IF inputs[i].ID \in DOMAIN recs THEN recs[inputs[i].ID] ELSE NoValue]

InitPipeline ==
    /\ env \in { e \in PDFGetEnvs : e.files = {} }
    /\ packages = FlagInstalledPackages(load_package_endpoints_index, env)
    /\ pc = "ready"
    /\ call = NoCall
    /\ result = NoValue
    /\ \E sel \in PipelineEndpointLists, pre \in PipelineEndpointLists :
          settings = [pdf_get_package_endpoints |-> sel,
                      prescreen_package_endpoints |-> pre,
                      prescreen_explanation |-> ""]
    /\ endpoints = NoValue
    /\ \E status \in [RecordIds -> PipelineStatuses], toc \in [RecordIds -> TocKeys] :
          /\ toc[1] = 1
          /\ records_file = [id \in RecordIds |-> Record(id, status[id], NoValue, toc[id])]
    /\ pdf_files = {}
    /\ records = <<>>
    /\ items = <<>>
    /\ retrieved = <<>>
    /\ step = "none"
    /\ commits = <<>>

\* colrev dedupe with the curation_missing_dedupe endpoint
DedupeRun ==
    /\ step = "none"
    /\ Len(commits) < MaxCommits
    /\ \E answers \in [DedupeAsked(records_file) -> DedupeAnswers] :
        LET r == RunDedupe(records_file, commits, answers) IN
        /\ ValidSelection(records_file, answers)
        /\ records_file' = r.records
        /\ commits' = r.commits
        /\ call' = [op |-> "dedupe", exc |-> "none",
                    inputs |-> DedupeInput(records_file),
                    outputs |-> Outputs(DedupeInput(records_file), r.records)]
        /\ UNCHANGED <<env, packages, pc, result, settings, endpoints, records,
                       pdf_files, items, retrieved, step>>

\* colrev prescreen: Prescreen(review_manager) and main(split_str)
PrescreenRun ==
    /\ step = "none"
    /\ Len(commits) < MaxCommits
    /\ \E loaded \in {LoadPackages(packages, env, "prescreen",
                                   settings.prescreen_package_endpoints,
                                   "Prescreen", FALSE, TRUE)},
          split_str \in SplitStrs,
          answers \in [PrescreenAsked(records_file) -> {"y", "n", "s", "q"}],
          commit_answer \in BOOLEAN :
        LET r == PrescreenMain(settings.prescreen_package_endpoints, loaded.ret,
                               records_file, commits, split_str, answers,
                               commit_answer)
            ran == loaded.exc = "none" /\ r.exc = "none"
        IN
        /\ records_file' = IF ran THEN r.records ELSE records_file
        /\ commits' = IF ran THEN r.commits ELSE commits
        /\ settings' = IF ran /\ settings.prescreen_explanation = ""
                       THEN [settings EXCEPT !.prescreen_explanation = "scope"]
                       ELSE settings
        /\ call' = [op |-> "prescreen",
                    exc |-> IF loaded.exc # "none" THEN loaded.exc ELSE r.exc,
                    inputs |-> IF ran THEN PrescreenGetData(records_file) ELSE <<>>,
                    outputs |-> IF ran
                                THEN Outputs(PrescreenGetData(records_file), r.records)
                                ELSE <<>>]
        /\ UNCHANGED <<env, packages, pc, result, endpoints, records, pdf_files,
                       items, retrieved, step>>

NextPipeline ==
    \/ DedupeRun
    \/ PrescreenRun
    \/ PDFGetInit
    \/ MainLoadRecords
    \/ MainSetStatusIfFileLinked
    \/ MainCheckExistingUnlinkedPdfs
    \/ MainGetData
    \/ MainGetPdfTask
    \/ MainSaveRecordList
    \/ MainCreateCommit

SpecPipeline == InitPipeline /\ [][NextPipeline]_vars

(***************************************************************************)
(* Claims on the operations                                                *)
(***************************************************************************)

\* C5: after a successful load_packages, PDFGet.get_pdf and Prescreen.main
\* find every endpoint configured in the settings in the returned dictionary
\* under the identifier exactly as it is written in the settings, upper-case
\* spellings included: no lookup raises KeyError.
C5_ConfiguredEndpointsFound ==
    /\ endpoints # NoValue =>
          \A i \in DOMAIN settings.pdf_get_package_endpoints :
              DictHas(endpoints, settings.pdf_get_package_endpoints[i].endpoint)
    /\ \A i \in DOMAIN retrieved :
          retrieved[i] # NoValue => retrieved[i].exc # "KeyError"
    /\ call.op = "prescreen" => call.exc # "KeyError"

\* C7 as stated: prescreen takes as input the records that completed
\* preparation (md_prepared), dedupe takes as input the records that
\* completed prescreen, and PDF retrieval takes as input the records that
\* completed dedupe (md_processed).
C7_Original ==
    /\ call.op = "prescreen" =>
          \A i \in DOMAIN call.inputs : call.inputs[i].colrev_status = "md_prepared"
    /\ call.op = "dedupe" =>
          \A i \in DOMAIN call.inputs :
              call.inputs[i].colrev_status \in
                  {"rev_prescreen_included", "rev_prescreen_excluded"}
    /\ \A i \in DOMAIN items : items[i].record.colrev_status = "md_processed"

\* C7 amended: the stages run in the order preparation, dedupe, prescreen,
\* PDF retrieval: dedupe takes as input the records in md_prepared and
\* leaves them in md_prepared, md_needs_manual_preparation or md_processed
\* (or merges them away); prescreen takes as input the records in
\* md_processed and leaves them there or moves them to
\* rev_prescreen_included or rev_prescreen_excluded; PDF retrieval takes as
\* input the records in rev_prescreen_included.
C7_StageOrder ==
    /\ call.op = "dedupe" =>
          \A i \in DOMAIN call.inputs :
              /\ call.inputs[i].colrev_status = "md_prepared"
              /\ call.outputs[i] # NoValue =>
                    call.outputs[i].colrev_status \in
                        {"md_prepared", "md_needs_manual_preparation", "md_processed"}
    /\ call.op = "prescreen" =>
          \A i \in DOMAIN call.inputs :
              /\ call.inputs[i].colrev_status = "md_processed"
              /\ call.outputs[i].colrev_status \in
                    {"md_processed", "rev_prescreen_included", "rev_prescreen_excluded"}
    /\ \A i \in DOMAIN items :
          items[i].record.colrev_status = "rev_prescreen_included"

\* C7 witness: dedupe moved a record from md_prepared to md_processed (its
\* commit 'Add non-duplicate records' exists), then prescreen ran, then
\* pdf-get, and every record is md_processed in the commit of dedupe,
\* included in the commit of the prescreen and pdf_imported in the commit of
\* pdf-get.
C7_Witness ==
    /\ step = "committed"
    /\ Len(commits) = 3
    /\ commits[1].msg = "Add non-duplicate records"
    /\ commits[2].msg = "Pre-screening (manual)"
    /\ commits[3].msg = "Get PDFs"
    /\ \A id \in DOMAIN records_file :
          /\ commits[1].records[id].colrev_status = "md_processed"
          /\ commits[2].records[id].colrev_status = "rev_prescreen_included"
          /\ commits[3].records[id].colrev_status = "pdf_imported"

PdfImportedFrom == {"rev_prescreen_included", "pdf_needs_manual_retrieval"}

MovedToPdfImported(before, after) ==
    /\ after.colrev_status = "pdf_imported"
    /\ before.colrev_status # "pdf_imported"

\* C8: in every PDFGet operation (get_pdf, __set_status_if_file_linked,
\* check_existing_unlinked_pdfs) a record's status changes to pdf_imported
\* only from rev_prescreen_included or pdf_needs_manual_retrieval.
C8_PdfImportedOnlyFromRetrieval ==
    [][ /\ \A id \in (DOMAIN records) \cap (DOMAIN records') :
              MovedToPdfImported(records[id], records'[id])
                  => records[id].colrev_status \in PdfImportedFrom
        /\ \A i \in (DOMAIN retrieved) \cap (DOMAIN retrieved') :
              (/\ retrieved[i] = NoValue
               /\ retrieved'[i] # NoValue
               /\ MovedToPdfImported(items[i].record, retrieved'[i].record))
                  => items[i].record.colrev_status \in PdfImportedFrom
        /\ (/\ call'.op = "get_pdf"
            /\ result' # result
            /\ MovedToPdfImported(call'.item.record, result'.record))
                  => call'.item.record.colrev_status \in PdfImportedFrom
      ]_vars

\* C9: every record change made during PDFGet.main (by
\* __set_status_if_file_linked, by check_existing_unlinked_pdfs and by
\* get_pdf) is in the records dataset when the commit 'Get PDFs' is created:
\* the committed records are the records main holds, with the results of
\* get_pdf for the retrieved ones.
C9_AllChangesCommitted ==
    step = "committed" =>
        LET last == commits[Len(commits)] IN
        /\ last.msg = "Get PDFs"
        /\ \A id \in DOMAIN records :
              IF \E i \in DOMAIN retrieved : retrieved[i].record.ID = id
              THEN \A i \in DOMAIN retrieved :
                      retrieved[i].record.ID = id
                          => last.records[id] = retrieved[i].record
              ELSE last.records[id] = records[id]

GetPdfPostcondition(before, res) ==
    IF before.colrev_status = "rev_prescreen_included"
    THEN /\ res.exc = "none"
         /\ HasFile(res.record) => res.record.colrev_status = "pdf_imported"
         /\ ~HasFile(res.record) =>
               res.record.colrev_status = "pdf_needs_manual_retrieval"
    ELSE /\ res.exc = "none"
         /\ res.record = before
         /\ res.called = <<>>

\* C10: after get_pdf on a record in rev_prescreen_included the record is
\* pdf_imported if it has a file field and pdf_needs_manual_retrieval if it
\* has none, for every configured list of pdf_get endpoints; a record in any
\* other status is returned unchanged and no endpoint is called for it.
C10_GetPdfResult ==
    /\ call.op = "get_pdf" => GetPdfPostcondition(call.item.record, result)
    /\ \A i \in DOMAIN retrieved :
          retrieved[i] # NoValue => GetPdfPostcondition(items[i].record, retrieved[i])

(***************************************************************************)
(* The prescreen operation on its own: on a dataset with records in any    *)
(* stage, one of include_all_in_prescreen, create_prescreen_split (then    *)
(* main with the emitted split) or main is called.                         *)
(***************************************************************************)
IncludeAllRegardlessOfStatus(recs) ==
    [id \in DOMAIN recs |-> [recs[id] EXCEPT !.colrev_status = "rev_prescreen_included"]]

\* include_all_in_prescreen: the loop over the loaded records
IncludeAll(recs) ==
    [id \in DOMAIN recs |->
        IF recs[id].colrev_status # "md_processed"
        THEN recs[id]
        ELSE [recs[id] EXCEPT !.colrev_status = "rev_prescreen_included"]]

PrescreenStatuses ==
    {"md_prepared", "md_processed", "rev_prescreen_excluded", "pdf_imported"}

InitPrescreen ==
    /\ env \in { e \in PDFGetEnvs : e.files = {} }
    /\ packages = FlagInstalledPackages(load_package_endpoints_index, env)
    /\ pc = "ready"
    /\ call = NoCall
    /\ result = NoValue
    /\ \E sel \in PipelineEndpointLists, pre \in PipelineEndpointLists :
          settings = [pdf_get_package_endpoints |-> sel,
                      prescreen_package_endpoints |-> pre,
                      prescreen_explanation |-> ""]
    /\ endpoints = NoValue
    /\ \E status \in [RecordIds -> PrescreenStatuses] :
          /\ records_file = [id \in RecordIds |->
                Record(id, status[id],
                       IF status[id] = "pdf_imported" THEN PdfPath(id) ELSE NoValue, 1)]
          /\ pdf_files = { PdfPath(id) : id \in { x \in RecordIds :
                                                    status[x] = "pdf_imported" } }
    /\ records = <<>>
    /\ items = <<>>
    /\ retrieved = <<>>
    /\ step = "none"
    /\ commits = <<>>

\* include_all_in_prescreen(REVIEW_MANAGER): load, include, save, commit
IncludeAllInPrescreenCall ==
    /\ step = "none"
    /\ records' = IncludeAll(records_file)
    /\ records_file' = records'
    /\ commits' = CreateCommit(commits, "Pre-screen (include_all)", records_file')
    /\ call' = [op |-> "include_all_in_prescreen", before |-> records_file]
    /\ step' = "done"
    /\ UNCHANGED <<env, packages, pc, result, settings, endpoints, pdf_files,
                   items, retrieved>>

MaxSplit == 2

Comma == [ch |-> ",", id |-> 0]

IdStr(id) == [ch |-> "id", id |-> id]

\* ",".join(added)
RECURSIVE StrJoin(_)
StrJoin(list) ==
    IF list = <<>> THEN <<>>
    ELSE IF Len(list) = 1 THEN <<IdStr(list[1])>>
    ELSE <<IdStr(Head(list)), Comma>> \o StrJoin(Tail(list))

\* split_str.split(","): the pieces between the commas (record IDs and 0 for
\* the empty piece ""); cur is the piece read so far
RECURSIVE StrSplit(_, _)
StrSplit(str, cur) ==
    IF str = <<>> THEN <<cur>>
    ELSE IF Head(str) = Comma THEN <<cur>> \o StrSplit(Tail(str), 0)
    ELSE StrSplit(Tail(str), Head(str).id)

CreatePrescreenSplit(recs, create_split) ==
    LET data_items == PrescreenGetData(recs)
        nr_tasks   == Len(data_items)
        nrecs      == nr_tasks \div create_split
        added      == [k \in 1..nrecs |-> data_items[k].ID]
    IN <<[command |-> "colrev prescreen --split ", ids |-> StrJoin(added)]>>

\* colrev prescreen --create_split n
CreatePrescreenSplitCall ==
    /\ step = "none"
    /\ \E create_split \in 1..MaxSplit :
          /\ result' = CreatePrescreenSplit(records_file, create_split)
          /\ call' = [op |-> "create_prescreen_split", create_split |-> create_split]
    /\ step' = "split"
    /\ UNCHANGED <<env, packages, pc, settings, endpoints, records_file, records,
                   pdf_files, items, retrieved, commits>>

\* colrev prescreen [--split ...]: Prescreen(review_manager) and
\* main(split_str), with the string a split was emitted with or a string of
\* the user's own
PrescreenMainCall ==
    /\ step \in {"none", "split"}
    /\ \E loaded \in {LoadPackages(packages, env, "prescreen",
                                   settings.prescreen_package_endpoints,
                                   "Prescreen", FALSE, TRUE)},
          split_str \in (IF step = "split"
                         THEN {[na |-> FALSE, pieces |-> StrSplit(result[1].ids, 0)]}
                         ELSE SplitStrs),
          answers \in [PrescreenAsked(records_file) -> {"y", "n", "s", "q"}],
          commit_answer \in BOOLEAN :
        LET r == PrescreenMain(settings.prescreen_package_endpoints, loaded.ret,
                               records_file, commits, split_str, answers,
                               commit_answer)
            ran == loaded.exc = "none" /\ r.exc = "none"
        IN
        /\ records' = IF loaded.exc = "none" /\ r.exc # "ValueError"
                      THEN records_file ELSE records
        /\ records_file' = IF ran THEN r.records ELSE records_file
        /\ commits' = IF ran THEN r.commits ELSE commits
        /\ settings' = IF ran /\ settings.prescreen_explanation = ""
                       THEN [settings EXCEPT !.prescreen_explanation = "scope"]
                       ELSE settings
        /\ endpoints' = IF loaded.exc = "none" THEN loaded.ret ELSE endpoints
        /\ call' = [op |-> "prescreen",
                    exc |-> IF loaded.exc # "none" THEN loaded.exc ELSE r.exc,
                    from_split |-> step = "split",
                    split_str |-> split_str,
                    answers |-> answers,
                    before |-> records_file]
    /\ step' = "done"
    /\ UNCHANGED <<env, packages, pc, result, pdf_files, items, retrieved>>

NextPrescreen ==
    \/ IncludeAllInPrescreenCall
    \/ CreatePrescreenSplitCall
    \/ PrescreenMainCall

SpecPrescreen == InitPrescreen /\ [][NextPrescreen]_vars

(***************************************************************************)
(* Further properties of the package manager (checked under Spec)          *)
(***************************************************************************)
\* a selected package is available: registered and installed, or importable
\* (as module or custom script) with the custom class of the package type
IsAvailable(pkgs, e, package_type, identifier) ==
    LET id == Lower(identifier) IN
    IF DictHas(pkgs[package_type], id)
    THEN pkgs[package_type].val[id].installed
    ELSE LET imported == IF IsFile(e, id) THEN ImportCustomScript(e, id)
                         ELSE ImportModule(e, <<id>>)
         IN /\ imported.exc = "none"
            /\ HasAttr(e, imported.ret, package_type_overview[package_type].custom_class)

\* C12: load_packages with ignore_not_available=True raises no
\* MissingDependencyError; when it returns, the selected packages that are
\* not available are left out of the returned dictionary and the available
\* ones are in it.
C12_IgnoreNotAvailable ==
    (IsLoadPackages /\ call.ignore_not_available) =>
        /\ result.exc # "MissingDependencyError"
        /\ Returned =>
              \A i \in DOMAIN call.selected_packages :
                  LET identifier == call.selected_packages[i].endpoint IN
                  IsAvailable(packages, env, call.package_type, identifier)
                      <=> DictHas(result.ret, Lower(identifier))
\* C13: discover_packages(package_type, installed_only=True) returns only
\* packages whose installed flag is True: no package flagged as not
\* installed is in the returned dictionary.
C13_DiscoverInstalledOnly ==
    (/\ pc = "done"
     /\ call.op = "discover_packages"
     /\ call.installed_only
     /\ Returned) =>
        \A id \in Range(result.ret.keys) : result.ret.val[id].installed
\* C14: get_package_details raises ServiceNotAvailableException when the
\* loaded package class has no settings_class, and no other exception.
C14_NoSettingsClass ==
    (/\ pc = "done"
     /\ call.op = "get_package_details"
     /\ ~call.settings_class
     /\ LoadPackageEndpoint(packages, env, call.package_type,
                            call.package_identifier).exc = "none") =>
        result.exc = "ServiceNotAvailableException"
\* C15: load_packages returns one loaded endpoint for each entry of
\* selected_packages, each constructed with that entry's own settings, also
\* when two entries name the same endpoint identifier.
C15_OneEndpointPerEntry ==
    (IsLoadPackages /\ Returned /\ call.instantiate_objects) =>
        /\ Len(result.ret.keys) = Len(call.selected_packages)
        /\ \A i \in DOMAIN call.selected_packages :
              \E k \in Range(result.ret.keys) :
                  result.ret.val[k].params["settings"].value = call.selected_packages[i]
\* C16: get_pdf calls the configured pdf_get endpoints in the order of the
\* settings list and stops at the first endpoint after which the record has
\* a file field: no later endpoint is called, and the record is in
\* pdf_needs_manual_retrieval after every endpoint that left it without a
\* file (pdf_imported after the one that left it with a file).
C16_EndpointsInOrderUntilFile ==
    (call.op = "get_pdf"
        /\ call.item.record.colrev_status = "rev_prescreen_included") =>
        LET package_endpoints == settings.pdf_get_package_endpoints
            n == Len(result.called)
            FileAfter(k) ==
                \/ HasFile(LinkPdf(call.item.record, call.files))
                \/ \E j \in 1..k : call.outcomes[j]
        IN /\ n <= Len(package_endpoints)
           /\ \A k \in 1..n : result.called[k] = package_endpoints[k].endpoint
           /\ \A k \in 1..(n - 1) : ~FileAfter(k)
           /\ (result.exc = "none" /\ n < Len(package_endpoints)) =>
                 (n >= 1 /\ FileAfter(n))
           /\ (n >= 1 /\ ~FileAfter(n)) =>
                 /\ ~HasFile(result.record)
                 /\ result.record.colrev_status = "pdf_needs_manual_retrieval"
           /\ (n >= 1 /\ FileAfter(n)) =>
                 /\ HasFile(result.record)
                 /\ result.record.colrev_status = "pdf_imported"

\* C16 witness: two endpoints are configured, the first one retrieves the
\* PDF of a record that had none, and the second one is not called.
C16_Witness ==
    /\ call.op = "get_pdf"
    /\ call.item.record.colrev_status = "rev_prescreen_included"
    /\ ~HasFile(LinkPdf(call.item.record, call.files))
    /\ Len(settings.pdf_get_package_endpoints) = 2
    /\ call.outcomes[1]
    /\ result.exc = "none"
    /\ result.called = <<settings.pdf_get_package_endpoints[1].endpoint>>
    /\ result.record.colrev_status = "pdf_imported"
\* C17: in PDFGet.main the get_pdf tasks of p_map work on records with
\* pairwise distinct IDs; a task changes only its own entry of the retrieved
\* list (the record of its own item), neither the records file nor the
\* result of any task that is still to run, whatever its endpoints find, so
\* the retrieved list does not depend on the order of the tasks; the list
\* is saved once, by save_record_list_by_id, after all tasks have finished.
C17_TaskStep ==
    /\ step = "p_map" =>
          \A i, j \in DOMAIN items :
              i # j => items[i].record.ID # items[j].record.ID
    /\ (step = "p_map" /\ retrieved' # retrieved) =>
          \E i \in DOMAIN items :
              /\ retrieved[i] = NoValue
              /\ retrieved'[i] # NoValue
              /\ retrieved'[i].record.ID = items[i].record.ID
              /\ \A j \in DOMAIN items \ {i} : retrieved'[j] = retrieved[j]
              /\ items' = items
              /\ records_file' = records_file
              /\ \A j \in DOMAIN items \ {i},
                    o \in [DOMAIN settings.pdf_get_package_endpoints -> BOOLEAN] :
                    GetPdf(items[j], settings.pdf_get_package_endpoints,
                           endpoints, pdf_files', o)
                      = GetPdf(items[j], settings.pdf_get_package_endpoints,
                               endpoints, pdf_files, o)
    /\ (step = "p_map" /\ records_file' # records_file) =>
          /\ AllTasksDone
          /\ step' = "saved"
          /\ records_file' = SaveRecordListById(records_file,
                                [i \in DOMAIN retrieved |-> retrieved[i].record])
    /\ step = "saved" => records_file' = records_file

C17_TasksIndependent == [][C17_TaskStep]_vars

\* C17 witness: two tasks have run, both retrieved a PDF that was not there
\* before, and the two records have been saved as pdf_imported.
C17_Witness ==
    /\ step = "saved"
    /\ Len(items) = 2
    /\ \A i \in DOMAIN items :
          /\ ~HasFile(items[i].record)
          /\ retrieved[i].called # <<>>
          /\ HasFile(retrieved[i].record)
          /\ records_file[items[i].record.ID] = retrieved[i].record
          /\ retrieved[i].record.colrev_status = "pdf_imported"
\* the IDs of one emitted split
SplitIds(split) == Range(StrSplit(split.ids, 0)) \ {0}

\* C18: create_prescreen_split(create_split=n) creates n splits, each with
\* floor(nr_tasks / n) IDs of records in md_processed, and no ID is in two
\* splits.
C18_NSplits ==
    (call.op = "create_prescreen_split" /\ step = "split") =>
        LET n == call.create_split
            nr_tasks == Cardinality(PrescreenAsked(records_file))
        IN /\ Len(result) = n
           /\ \A k \in DOMAIN result :
                 /\ Cardinality(SplitIds(result[k])) = nr_tasks \div n
                 /\ SplitIds(result[k]) \subseteq PrescreenAsked(records_file)
           /\ \A k, l \in DOMAIN result :
                 k # l => SplitIds(result[k]) \cap SplitIds(result[l]) = {}

\* C19: the string emitted after "colrev prescreen --split " is accepted
\* by Prescreen.main(split_str=...): where every configured endpoint is among
\* the loaded ones, main does not raise, parses the string into the IDs the
\* split was made of, and changes no record outside these IDs.
C19_EmittedSplitAccepted ==
    (/\ call.op = "prescreen"
     /\ call.from_split
     /\ \A i \in DOMAIN settings.prescreen_package_endpoints :
           DictHas(endpoints, settings.prescreen_package_endpoints[i].endpoint)) =>
        /\ call.exc = "none"
        /\ \A id \in DOMAIN call.before :
              id \notin SplitIds(result[1]) => records_file[id] = call.before[id]

\* C20: in the CLI prescreen the answer "s" records no decision (the record
\* stays in md_processed), "y" records the inclusion and "n" the exclusion.
C20_SkipRecordsNoDecision ==
    (/\ call.op = "prescreen"
     /\ call.exc = "none"
     /\ call.split_str.na
     /\ Len(settings.prescreen_package_endpoints) = 1
     /\ \A id \in DOMAIN call.answers : call.answers[id] # "q") =>
        \A id \in DOMAIN call.answers :
            /\ call.answers[id] = "s" =>
                  records_file[id].colrev_status = "md_processed"
            /\ call.answers[id] = "y" =>
                  records_file[id].colrev_status = "rev_prescreen_included"
            /\ call.answers[id] = "n" =>
                  records_file[id].colrev_status = "rev_prescreen_excluded"

====
